---- MODULE Spec2Model ----
(***************************************************************************)
(* A model of the Mephisto core: the TaskLauncher (task_launcher.py) and   *)
(* the Supervisor (supervisor.py).                                         *)
(*                                                                         *)
(* The module holds several specifications over one set of variables:      *)
(*   SpecLauncher  the TaskLauncher's launch thread and the units' status  *)
(*   Spec          registration, onboarding and the requests answered      *)
(*   SpecStatus    registration, status reports and the status flag        *)
(*   SpecChannels  registration and the closing of channels                *)
(*   SpecSend      the control loop draining the queues, with fairness     *)
(*   SpecObserve   onboarding observations and their two senders           *)
(* Each specification leaves the variables of the other components at      *)
(* their initial values.                                                   *)
(***************************************************************************)
EXTENDS Integers, Sequences, FiniteSets, TLC

(***************************************************************************)
(* Bounds of the model.                                                    *)
(***************************************************************************)
\* the number of units create_assignments makes, at most
MaxUnits == 4
\* the largest max_num_concurrent_units tried
MaxConcurrent == 2
\* the number of inbound packets that ask for a reply, at most
MaxPackets == 3

VARIABLES
    \* ---- TaskLauncher (task_launcher.py) ----
    max_num_concurrent_units, \* TaskLauncher.max_num_concurrent_units
    assignment_data_list,     \* the unit count of each InitializationData
    units,                    \* TaskLauncher.units, a sequence of unit ids
    launched_units,           \* TaskLauncher.launched_units
    unlaunched_units,         \* TaskLauncher.unlaunched_units
    unit_status,              \* Unit.get_status() of every unit id
    tl_pc,                    \* where the launch thread stands
    tl_i,                     \* the loop index i of generate_units (0-based)
    tl_n,                     \* the length range(len(...)) was built from
    num_avail_units,          \* generate_units' local num_avail_units
    yielded,                  \* the units generate_units has yielded, in order
    \* ---- the job registered with the Supervisor ----
    is_concurrent,            \* job.task_runner.is_concurrent
    use_onboarding,           \* blueprint is OnboardingRequired with use_onboarding
    registered_channel_ids,   \* Job.registered_channel_ids
    connection,               \* per channel: new, opening, alive or closed
    \* ---- Supervisor (supervisor.py) ----
    channels,                 \* the keys of Supervisor.channels
    agents,                   \* Supervisor.agents: agent id -> AgentInfo
    agents_by_registration_id,\* registration id -> agent id of its AgentInfo
    onboarding_packets,       \* onboarding id -> the registration packet
    message_queue,            \* Supervisor.message_queue
    sending_thread,           \* Supervisor.sending_thread: none, running, dead
    handler,                  \* per channel: the packet handler running on it
    threads,                  \* the task threads started: id -> kind, members
    next_request,             \* the request_id the next inbound packet carries
    \* ---- the collaborators' state: database, task run, agents ----
    agent_objs,               \* the Agent / OnboardingAgent objects, by id
    unit_agent,               \* unit -> the agent id assigned to it (0: none)
    reservations,             \* the units task_run holds a reservation for
    onboarding_qual,          \* worker -> value of the onboarding qualification
    failed_qual,              \* the workers granted the onboarding-failed name
    has_passed,               \* the workers validate_onboarding has passed
    sender,                   \* where _channel_handling_thread stands
    wire,                     \* the packets channel.send returned true for
    db_workers                \* the worker names in the database

launcherVars == <<max_num_concurrent_units, assignment_data_list, units,
                  launched_units, unlaunched_units, unit_status, tl_pc, tl_i,
                  tl_n, num_avail_units, yielded>>

jobVars == <<is_concurrent, use_onboarding, registered_channel_ids,
             connection>>

mapVars == <<agents, agents_by_registration_id, onboarding_packets>>

dbVars == <<agent_objs, unit_agent, reservations, onboarding_qual, failed_qual,
            has_passed, db_workers>>

sendVars == <<sending_thread, sender, wire>>

supVars == <<jobVars, channels, mapVars, message_queue, sendVars,
             handler, threads, next_request, dbVars>>

vars == <<launcherVars, supVars>>

(***************************************************************************)
(* The sets the inputs are drawn from.                                     *)
(***************************************************************************)
\* the channels the architect hands to register_job
Channels == {"c1", "c2"}

\* the units of the task run: one assignment of two units
Units == <<"u1", "u2">>

\* the workers the database holds when the run begins, by name
InitialWorkers == {"w1", "w2_sandbox"}

\* the registration ids workers register agents under, and whose they are
RegistrationIds == {"g1", "g2"}
WorkerOf(reg) == IF reg = "g1" THEN "w1" ELSE "w2_sandbox"

\* the ids the database gives to agents and onboarding agents, in order
AgentIds == 1..MaxPackets

(***************************************************************************)
(* Sequences as the lists of the code.                                     *)
(***************************************************************************)
\* list.pop(i), i 0-based: the list without its element at index i
PopMutant(s, i) == s
Pop(s, i) == [k \in 1..(Len(s) - 1) |-> IF k <= i THEN s[k] ELSE s[k + 1]]

\* the elements of a list
Range(s) == {s[k] : k \in 1..Len(s)}

RECURSIVE SumSeq(_)
SumSeq(s) == IF s = <<>> THEN 0 ELSE Head(s) + SumSeq(Tail(s))

(***************************************************************************)
(* Dictionaries of the code: functions whose domain grows and shrinks.     *)
(***************************************************************************)
EmptyMap == [k \in {} |-> 0]

\* d[k] = v
Put(d, k, v) == [x \in DOMAIN d \cup {k} |-> IF x = k THEN v ELSE d[x]]

\* del d[k]
Del(d, k) == [x \in DOMAIN d \ {k} |-> d[x]]

(***************************************************************************)
(* The state right after construction.                                     *)
(***************************************************************************)
\* every worker name the run can meet
AllWorkers == InitialWorkers \cup {"w3"}

\* a channel's thread with no packet in hand
Idle == [pc |-> "idle", ptype |-> "none", request_id |-> 0,
         packet_request_id |-> 0, reg |-> "none", worker |-> "none",
         channel |-> "none", units |-> <<>>, unit |-> "none",
         reserved |-> FALSE, agent |-> 0, onboard |-> 0, curr_obs |-> 0,
         worker_passed |-> FALSE, status |-> "none", done_text |-> "None"]

\* _channel_handling_thread about to test its loop condition: todo holds
\* what is left of current_agents (agent id -> the channel it used when the
\* list was taken), obs and packet what a pop(0) has in hand
AtLoopTop == [pc |-> "top", todo |-> [k \in {} |-> 0], agent |-> 0,
              obs |-> 0, packet |-> <<>>]

\* TaskLauncher.__init__
LauncherNew ==
    /\ units = <<>>
    /\ launched_units = <<>>
    /\ unlaunched_units = <<>>
    /\ unit_status = [u \in 1..MaxUnits |-> "created"]
    /\ tl_pc = "new"
    /\ tl_i = 0
    /\ tl_n = 0
    /\ num_avail_units = 0
    /\ yielded = <<>>

\* Supervisor.__init__, and the database of a run that has registered nothing
SupervisorNew ==
    /\ registered_channel_ids = <<>>
    /\ connection = [c \in Channels |-> "new"]
    /\ channels = {}
    /\ agents = EmptyMap
    /\ agents_by_registration_id = EmptyMap
    /\ onboarding_packets = EmptyMap
    /\ message_queue = <<>>
    /\ sending_thread = "none"
    /\ sender = AtLoopTop
    /\ wire = <<>>
    /\ handler = [c \in Channels |-> Idle]
    /\ threads = EmptyMap
    /\ next_request = 1
    /\ agent_objs = <<>>
    /\ unit_agent = [u \in Range(Units) |-> 0]
    /\ reservations = {}
    /\ onboarding_qual = [w \in AllWorkers |-> -1]
    /\ failed_qual = {}
    /\ has_passed = {}
    /\ db_workers = InitialWorkers

(***************************************************************************)
(* TaskLauncher                                                            *)
(***************************************************************************)
UnitIds == 1..MaxUnits

\* AssignmentState, as far as the launcher reads it
AssignmentStates == {"created", "launched", "assigned", "completed", "expired"}

\* the two states generate_units counts as running
IsRunning(status) == status = "launched" \/ status = "assigned"

\* the inputs of the constructor: the data list and the cap
DataLists ==
    {l \in UNION {[1..n -> 1..2] : n \in 1..MaxUnits} : SumSeq(l) <= MaxUnits}

InitLauncher ==
    /\ max_num_concurrent_units \in 1..MaxConcurrent
    /\ assignment_data_list \in DataLists
    /\ LauncherNew
    /\ is_concurrent = FALSE
    /\ use_onboarding = FALSE
    /\ SupervisorNew

\* create_assignments: one unit row per unit_data entry, appended to units and
\* to unlaunched_units in the order the database numbers them
create_assignments ==
    /\ UNCHANGED supVars
    /\ tl_pc = "new"
    /\ LET n == SumSeq(assignment_data_list)
           made == [k \in 1..n |-> k]
       IN /\ units' = units \o made
          /\ unlaunched_units' = unlaunched_units \o made
    /\ tl_pc' = "created"
    /\ UNCHANGED <<max_num_concurrent_units, assignment_data_list,
                   launched_units, unit_status, tl_i, tl_n, num_avail_units,
                   yielded>>

\* launch_units: start the thread that consumes generate_units
launch_units ==
    /\ UNCHANGED supVars
    /\ tl_pc = "created"
    /\ tl_pc' = "reap"
    /\ tl_i' = 0
    /\ tl_n' = Len(launched_units)
    /\ UNCHANGED <<max_num_concurrent_units, assignment_data_list, units,
                   launched_units, unlaunched_units, unit_status,
                   num_avail_units, yielded>>

\* num_avail_units = self.max_num_concurrent_units - len(self.launched_units)
NumAvailMutant == max_num_concurrent_units
NumAvail == max_num_concurrent_units - Len(launched_units)

\* one turn of "for i in range(len(self.launched_units))": the range was
\* built when the loop began, the list shrinks under it
ReapStep ==
    /\ UNCHANGED supVars
    /\ tl_pc = "reap"
    /\ IF tl_i >= tl_n
       THEN \* the loop is over: compute num_avail_units, begin the launch loop
            /\ num_avail_units' = NumAvail
            /\ tl_pc' = "launch"
            /\ tl_i' = 0
            /\ tl_n' = Len(unlaunched_units)
            /\ UNCHANGED launched_units
       ELSE IF tl_i >= Len(launched_units)
       THEN \* self.launched_units[i] raises IndexError: the thread dies
            /\ tl_pc' = "crashed"
            /\ UNCHANGED <<launched_units, tl_i, tl_n, num_avail_units>>
       ELSE /\ launched_units' =
                 IF IsRunning(unit_status[launched_units[tl_i + 1]])
                 THEN launched_units
                 ELSE Pop(launched_units, tl_i)
            /\ tl_i' = tl_i + 1
            /\ UNCHANGED <<tl_pc, tl_n, num_avail_units>>
    /\ UNCHANGED <<max_num_concurrent_units, assignment_data_list, units,
                   unlaunched_units, unit_status, yielded>>

\* one turn of "for i in range(len(self.unlaunched_units))"; the unit yielded
\* is launched by _launch_limited_units (unit.launch(url)) before the
\* generator is resumed
LaunchStep ==
    /\ UNCHANGED supVars
    /\ tl_pc = "launch"
    /\ IF tl_i >= tl_n \/ ~(tl_i < num_avail_units)
       THEN \* the range is used up, or the else branch breaks
            /\ tl_pc' = "sleep"
            /\ UNCHANGED <<launched_units, unlaunched_units, unit_status,
                           tl_i, yielded>>
       ELSE IF tl_i >= Len(unlaunched_units)
       THEN \* self.unlaunched_units[i] raises IndexError: the thread dies
            /\ tl_pc' = "crashed"
            /\ UNCHANGED <<launched_units, unlaunched_units, unit_status,
                           tl_i, yielded>>
       ELSE LET unit == unlaunched_units[tl_i + 1]
            IN /\ launched_units' = Append(launched_units, unit)
               /\ unlaunched_units' = Pop(unlaunched_units, tl_i)
               /\ yielded' = Append(yielded, unit)
               /\ unit_status' = [unit_status EXCEPT ![unit] = "launched"]
               /\ tl_i' = tl_i + 1
               /\ UNCHANGED tl_pc
    /\ UNCHANGED <<max_num_concurrent_units, assignment_data_list, units,
                   tl_n, num_avail_units>>

\* time.sleep(10), then "if not self.unlaunched_units: break"
SleepStep ==
    /\ UNCHANGED supVars
    /\ tl_pc = "sleep"
    /\ IF unlaunched_units = <<>>
       THEN /\ tl_pc' = "done"
            /\ UNCHANGED <<tl_i, tl_n>>
       ELSE /\ tl_pc' = "reap"
            /\ tl_i' = 0
            /\ tl_n' = Len(launched_units)
    /\ UNCHANGED <<max_num_concurrent_units, assignment_data_list, units,
                   launched_units, unlaunched_units, unit_status,
                   num_avail_units, yielded>>

\* what happens to a launched unit outside the launcher: a worker takes it,
\* gives it back, finishes it, or it expires
UnitStatusChange ==
    \E u \in Range(units) :
        /\ UNCHANGED supVars
        /\ IsRunning(unit_status[u])
        /\ \E s \in {"launched", "assigned", "completed", "expired"} :
              /\ s # unit_status[u]
              /\ unit_status' = [unit_status EXCEPT ![u] = s]
        /\ UNCHANGED <<max_num_concurrent_units, assignment_data_list, units,
                       launched_units, unlaunched_units, tl_pc, tl_i, tl_n,
                       num_avail_units, yielded>>

NextLauncher ==
    \/ create_assignments
    \/ launch_units
    \/ ReapStep
    \/ LaunchStep
    \/ SleepStep
    \/ UnitStatusChange

SpecLauncher == InitLauncher /\ [][NextLauncher]_vars

\* the units that count against the cap
RunningUnits == {u \in Range(units) : IsRunning(unit_status[u])}

\* C3: at every moment of the launch thread's run, with the units' status
\* changing outside it, the number of units whose status is LAUNCHED or
\* ASSIGNED is at most max_num_concurrent_units.
C3_ConcurrencyCap == Cardinality(RunningUnits) <= max_num_concurrent_units

\* C3's case: the cap is 2 and is reached again after a unit finished and
\* the launcher reaped it, with units still waiting
C3_Witness ==
    /\ max_num_concurrent_units = 2
    /\ Cardinality(RunningUnits) = 2
    /\ \E u \in Range(units) : unit_status[u] = "completed"
    /\ Len(yielded) >= 3
    /\ unlaunched_units # <<>>

\* the units the launch thread has launched and reaped again
ReapedUnits == Range(yielded) \ Range(launched_units)

\* C11: with a cap of 2 and units still unlaunched, when a launched unit
\* has left {LAUNCHED, ASSIGNED} the launch thread launches a further unit
\* in its next reap pass: the thread that has reaped a unit, with units
\* still waiting, is alive to launch one (it has not died on the way).
C11_ReapedUnitReplaced ==
    (/\ max_num_concurrent_units = 2
     /\ unlaunched_units # <<>>
     /\ ReapedUnits # {})
        => tl_pc # "crashed"

\* C22: each pass of generate_units yields the first
\* min(avail, |unlaunched_units|) units of unlaunched_units in queue order,
\* so that over the whole run the units are launched in the order
\* create_assignments enqueued them: the k-th unit yielded is the k-th unit
\* of units.
C22_LaunchedInQueueOrder ==
    \A k \in DOMAIN yielded : yielded[k] = units[k]

\* C23: the reap loop of a generate_units pass, whatever the launched units
\* and their statuses, removes from launched_units only units that are no
\* longer LAUNCHED or ASSIGNED, removes each such unit it examines, and
\* completes without error: no turn of the loop ends the thread.
C23_ReapCompletes ==
    [][(tl_pc = "reap" /\ <<tl_pc, tl_i>>' # <<tl_pc, tl_i>>) =>
          /\ tl_pc' # "crashed"
          /\ \A u \in Range(launched_units) \ Range(launched_units') :
                 ~IsRunning(unit_status[u])
          /\ (tl_i < tl_n /\ tl_i < Len(launched_units)
                  /\ ~IsRunning(unit_status[launched_units[tl_i + 1]]))
                 => launched_units[tl_i + 1] \notin Range(launched_units')]_vars

\* C24: generate_units is a finite sequence that yields every unit of
\* unlaunched_units and ends once the list is empty, for any cap >= 1 and
\* any number of units: the launch thread never ends with a unit still
\* unlaunched, neither by returning nor by dying.
C24_EveryUnitLaunched ==
    tl_pc \in {"done", "crashed"} => unlaunched_units = <<>>

\* C31: across the whole run of generate_units every unit made by
\* create_assignments is yielded, and so launched, at most once, and no
\* unit is in both launched_units and unlaunched_units.
C31_YieldedAtMostOnce ==
    /\ \A i, j \in DOMAIN yielded : yielded[i] = yielded[j] => i = j
    /\ Range(launched_units) \cap Range(unlaunched_units) = {}

\* C31's case: units were yielded in more than one pass, one of them has
\* been reaped since, one is still launched and one still waits
C31_Witness ==
    /\ Len(yielded) >= 2
    /\ ReapedUnits # {}
    /\ launched_units # <<>>
    /\ unlaunched_units # <<>>
    /\ tl_pc = "sleep"

(***************************************************************************)
(* Supervisor: collaborators                                               *)
(***************************************************************************)
\* AgentState.complete(): the statuses a task is over in
Complete == {"completed", "disconnect", "timeout", "expired"}

\* AgentState.valid()
ValidStatuses == {"none", "onboarding", "waiting", "in_task",
                  "partner_disconnect"} \cup Complete

\* a new Agent or OnboardingAgent object; via is the packet type whose
\* handling made it
NewAgentObj(kind, worker, unit, reg, via) ==
    [kind |-> kind, worker |-> worker, unit |-> unit, reg |-> reg,
     via |-> via, db_status |-> "none", has_updated_status |-> FALSE,
     has_action |-> FALSE, pending_actions |-> 0,
     pending_observations |-> <<>>, n_observed |-> 0]

\* the most packets the agents are given to observe by their tasks
MaxObservations == 2

\* agent.observe(packet), called by the task the agent's thread runs: the
\* packet, named by its place among those the agent was given, is appended
\* to pending_observations
observe(obj) ==
    [obj EXCEPT !.pending_observations = Append(@, obj.n_observed + 1),
                !.n_observed = @ + 1]

\* agent.update_status(status), as a new object: nothing when the status is
\* the one it has, else the status is set and has_updated_status raised
UpdatedStatus(obj, status) ==
    IF obj.db_status = status
    THEN obj
    ELSE [obj EXCEPT !.db_status = status, !.has_updated_status = TRUE]

\* task_run.get_valid_units_for_worker(worker): the units no agent holds
get_valid_units_for_worker(worker) ==
    SelectSeq(Units, LAMBDA u : unit_agent[u] = 0)

\* worker.is_qualified(name) and worker.is_disqualified(name) for the
\* onboarding qualification: granted with a value that is true, or false
is_qualified(worker) == onboarding_qual[worker] = 1
is_disqualified(worker) == onboarding_qual[worker] = 0

\* assignment.get_agents(): the agent of each unit of the assignment, 0 for
\* a unit without one
get_agents == {unit_agent[u] : u \in Range(Units)}

(***************************************************************************)
(* Supervisor: packets                                                     *)
(***************************************************************************)
\* a PROVIDER_DETAILS reply about an agent; cause is the request_id the
\* inbound packet in hand arrived with
AgentDetails(channel, request_id, agent_id, onboard_data, cause) ==
    [packet_type |-> "provider_details", receiver_id |-> channel,
     request_id |-> request_id, agent_id |-> agent_id, worker_id |-> "none",
     onboard_data |-> onboard_data, cause |-> cause]

\* a PROVIDER_DETAILS reply about a worker: its id for one who meets the
\* job's qualifications, None for one who does not; qualified keeps what
\* worker_is_qualified returned
WorkerDetails(channel, request_id, worker, qualified, cause) ==
    [packet_type |-> "provider_details", receiver_id |-> channel,
     request_id |-> request_id, agent_id |-> 0,
     worker_id |-> IF qualified THEN worker ELSE "none",
     onboard_data |-> FALSE, cause |-> cause, qualified |-> qualified]

\* an INIT_DATA reply
InitData(channel, request_id, cause) ==
    [packet_type |-> "init_data", receiver_id |-> channel,
     request_id |-> request_id, agent_id |-> 0, worker_id |-> "none",
     onboard_data |-> FALSE, cause |-> cause]

(***************************************************************************)
(* Supervisor: channels and the job                                        *)
(***************************************************************************)
InitSupervisor ==
    /\ max_num_concurrent_units = 1
    /\ assignment_data_list = <<>>
    /\ LauncherNew
    /\ is_concurrent \in BOOLEAN
    /\ use_onboarding \in BOOLEAN
    /\ SupervisorNew

\* register_job: register_channel for each channel of the architect, each
\* becoming alive in time
register_job ==
    /\ registered_channel_ids = <<>>
    /\ channels' = channels \cup Channels
    /\ registered_channel_ids' = <<"c1", "c2">>
    /\ connection' = [c \in Channels |-> "alive"]
    /\ UNCHANGED <<launcherVars, is_concurrent, use_onboarding, mapVars,
                   message_queue, sendVars, handler, threads,
                   next_request, dbVars>>

\* the channels architect.get_channels returns, in its order
ArchitectChannels == <<"c1", "c2">>

\* register_channel(channel, job) up to the wait, for the next channel of
\* register_job's loop: the ChannelInfo is indexed, the channel opened
register_channel(c) ==
    /\ Len(registered_channel_ids) < Len(ArchitectChannels)
    /\ c = ArchitectChannels[Len(registered_channel_ids) + 1]
    /\ connection[c] = "new"
    /\ channels' = channels \cup {c}
    /\ connection' = [connection EXCEPT ![c] = "opening"]
    /\ UNCHANGED <<launcherVars, is_concurrent, use_onboarding,
                   registered_channel_ids, mapVars, message_queue,
                   sendVars, handler, threads, next_request, dbVars>>

\* register_channel, the wait over with is_alive() true: the id is returned
\* and register_job appends it to the job's
ChannelAlive(c) ==
    /\ connection[c] = "opening"
    /\ connection' = [connection EXCEPT ![c] = "alive"]
    /\ registered_channel_ids' = Append(registered_channel_ids, c)
    /\ UNCHANGED <<launcherVars, is_concurrent, use_onboarding, channels,
                   mapVars, message_queue, sendVars, handler, threads,
                   next_request, dbVars>>

\* register_channel, the deadline passed with is_alive() still false: the
\* channel is closed and ConnectionRefusedError raised, which ends
\* register_job
ConnectRefused(c) ==
    /\ connection[c] = "opening"
    /\ connection' = [connection EXCEPT ![c] = "closed"]
    /\ UNCHANGED <<launcherVars, is_concurrent, use_onboarding,
                   registered_channel_ids, channels, mapVars, message_queue,
                   sendVars, handler, threads, next_request, dbVars>>

\* launch_sending_thread
launch_sending_thread ==
    /\ sending_thread = "none"
    /\ registered_channel_ids # <<>>
    /\ sending_thread' = "running"
    /\ UNCHANGED <<sender, wire, launcherVars, jobVars, channels, mapVars,
                   message_queue,
                   handler, threads, next_request, dbVars>>

\* close_channel(channel_id), for a channel that is registered
close_channel(c) ==
    /\ c \in channels
    /\ connection' = [connection EXCEPT ![c] = "closed"]
    /\ channels' = channels \ {c}
    /\ UNCHANGED <<launcherVars, is_concurrent, use_onboarding,
                   registered_channel_ids, mapVars, message_queue,
                   sendVars, handler, threads, next_request, dbVars>>

\* the channels shutdown_job closes: close_channel for each registered id in
\* turn, ended by the KeyError of the first one closed before
RECURSIVE ClosedByJob(_, _)
ClosedByJob(ids, open) ==
    IF ids = <<>> \/ Head(ids) \notin open
    THEN {}
    ELSE {Head(ids)} \cup ClosedByJob(Tail(ids), open \ {Head(ids)})

\* shutdown_job(job)
shutdown_job ==
    /\ registered_channel_ids # <<>>
    /\ channels # {}
    /\ channels' = channels \ ClosedByJob(registered_channel_ids, channels)
    /\ connection' =
          [c \in Channels |->
              IF c \in ClosedByJob(registered_channel_ids, channels)
              THEN "closed" ELSE connection[c]]
    /\ UNCHANGED <<launcherVars, is_concurrent, use_onboarding,
                   registered_channel_ids, mapVars, message_queue,
                   sendVars, handler, threads, next_request, dbVars>>

\* shutdown(): every channel is closed (the join is the control loop's end)
shutdown ==
    /\ channels # {}
    /\ channels' = {}
    /\ connection' =
          [c \in Channels |-> IF c \in channels THEN "closed"
                              ELSE connection[c]]
    /\ UNCHANGED <<launcherVars, is_concurrent, use_onboarding,
                   registered_channel_ids, mapVars, message_queue,
                   sendVars, handler, threads, next_request, dbVars>>

(***************************************************************************)
(* Supervisor: NEW_AGENT                                                   *)
(***************************************************************************)
\* the handler leaves _assign_unit_to_agent: back in _on_submit_onboarding
\* when the packet came from onboarding, else the packet is done with
Returned(h) ==
    IF h.onboard # 0 THEN [h EXCEPT !.pc = "forget"] ELSE Idle

\* _register_agent up to the units: the reconnection test, then
\* get_valid_units_for_worker and the reply for an empty list
RegisterAgent(c) ==
    /\ c \in channels
    /\ handler[c].pc = "idle"
    /\ next_request <= MaxPackets
    /\ \E reg \in RegistrationIds :
          IF reg \in DOMAIN agents_by_registration_id
          THEN LET a == agents_by_registration_id[reg]
               IN /\ agents' = [agents EXCEPT ![a].used_channel_id = c]
                  /\ message_queue' =
                        Append(message_queue,
                               AgentDetails(c, next_request, a, FALSE,
                                            next_request))
                  /\ UNCHANGED handler
          ELSE LET valid == get_valid_units_for_worker(WorkerOf(reg))
               IN /\ message_queue' =
                        IF Len(valid) = 0
                        THEN Append(message_queue,
                                    AgentDetails(c, next_request, 0, FALSE,
                                                 next_request))
                        ELSE message_queue
                  /\ handler' =
                        [handler EXCEPT ![c] =
                            [Idle EXCEPT !.pc = "gate",
                                         !.ptype = "new_agent",
                                         !.request_id = next_request,
                                         !.packet_request_id = next_request,
                                         !.reg = reg,
                                         !.worker = WorkerOf(reg),
                                         !.channel = c,
                                         !.units = valid]]
                  /\ UNCHANGED agents
    /\ next_request' = next_request + 1
    /\ UNCHANGED <<launcherVars, jobVars, channels, agents_by_registration_id,
                   onboarding_packets, sendVars, threads, dbVars>>

\* which way _register_agent goes after the units: "none" (the worker is
\* disqualified), "onboard" (the worker has yet to qualify) or "assign"
OnboardingRouteMutant(worker) == "assign"
OnboardingRoute(worker) ==
    IF use_onboarding /\ is_disqualified(worker) THEN "none"
    ELSE IF use_onboarding /\ ~is_qualified(worker) THEN "onboard"
    ELSE "assign"

\* _register_agent from the blueprint's test on: a disqualified worker is
\* refused, a worker yet to qualify gets an OnboardingAgent and its thread,
\* any other goes on to _assign_unit_to_agent
OnboardingGate(c) ==
    LET h == handler[c]
        route == OnboardingRoute(h.worker)
        onboard_id == Len(agent_objs) + 1
    IN /\ h.pc = "gate"
       /\ IF route = "none"
          THEN /\ message_queue' =
                     Append(message_queue,
                            AgentDetails(h.channel, h.packet_request_id, 0,
                                         FALSE, h.request_id))
               /\ handler' = [handler EXCEPT ![c] = Idle]
               /\ UNCHANGED <<agents, onboarding_packets, threads, agent_objs>>
          ELSE IF route = "onboard"
          THEN /\ agent_objs' =
                     Append(agent_objs,
                            UpdatedStatus(NewAgentObj("onboarding", h.worker,
                                                      "none", h.reg,
                                                      h.ptype),
                                          "onboarding"))
               /\ agents' = Put(agents, onboard_id,
                                [used_channel_id |-> h.channel,
                                 assignment_thread |-> onboard_id])
               /\ onboarding_packets' =
                     Put(onboarding_packets, onboard_id,
                         [request_id |-> h.packet_request_id, reg |-> h.reg,
                          worker |-> h.worker])
               /\ message_queue' =
                     Append(message_queue,
                            AgentDetails(h.channel, h.packet_request_id,
                                         onboard_id, TRUE, h.request_id))
               /\ threads' = Put(threads, onboard_id,
                                 [kind |-> "onboarding",
                                  members |-> {onboard_id},
                                  state |-> "running"])
               /\ handler' = [handler EXCEPT ![c] = Idle]
          ELSE /\ handler' = [handler EXCEPT ![c].pc = "reserve"]
               /\ UNCHANGED <<agents, onboarding_packets, message_queue,
                              threads, agent_objs>>
       /\ UNCHANGED <<launcherVars, jobVars, channels,
                      agents_by_registration_id, sendVars, next_request,
                      unit_agent, reservations, onboarding_qual, failed_qual,
                      has_passed, db_workers>>

\* task_run.reserve_unit(unit): the unit when nobody holds a reservation for
\* it, None (FALSE) when somebody does
reserve_unit(unit) == unit \notin reservations

\* _assign_unit_to_agent, the reservation loop: one turn of it, or, when the
\* list is used up with nothing reserved, the reply without an agent
ReserveUnit(c) ==
    LET h == handler[c]
    IN /\ h.pc = "reserve"
       /\ IF Len(h.units) > 0
          THEN LET unit == Head(h.units)
                   got == reserve_unit(unit)
               IN /\ reservations' =
                        IF got THEN reservations \cup {unit} ELSE reservations
                  /\ handler' =
                        [handler EXCEPT ![c] =
                            [h EXCEPT !.units = Tail(h.units),
                                      !.unit = unit,
                                      !.reserved = got,
                                      !.pc = IF got THEN "create"
                                             ELSE "reserve"]]
                  /\ UNCHANGED message_queue
          ELSE /\ message_queue' =
                     Append(message_queue,
                            AgentDetails(h.channel, h.packet_request_id, 0,
                                         FALSE, h.request_id))
               /\ handler' = [handler EXCEPT ![c] = Returned(h)]
               /\ UNCHANGED reservations
       /\ UNCHANGED <<launcherVars, jobVars, channels, mapVars,
                      sendVars, threads, next_request, agent_objs,
                      unit_agent, onboarding_qual, failed_qual, has_passed,
                      db_workers>>

\* AgentClass.new_from_provider_data(db, worker, unit, crowd_data): a new
\* agent row, the unit assigned to it
CreateAgent(c) ==
    LET h == handler[c]
        agent_id == Len(agent_objs) + 1
    IN /\ h.pc = "create"
       /\ agent_objs' =
             Append(agent_objs,
                    NewAgentObj("agent", h.worker, h.unit, h.reg, h.ptype))
       /\ unit_agent' = [unit_agent EXCEPT ![h.unit] = agent_id]
       /\ handler' = [handler EXCEPT ![c].agent = agent_id,
                                     ![c].pc = "install"]
       /\ UNCHANGED <<launcherVars, jobVars, channels, mapVars, message_queue,
                      sendVars, threads, next_request, reservations,
                      onboarding_qual, failed_qual, has_passed,
                      db_workers>>

\* new_from_provider_data raises (the provider or the database fails): the
\* exception leaves _assign_unit_to_agent at the call, nothing after it is
\* run and the handler ends
CreateAgentRaises(c) ==
    LET h == handler[c]
    IN /\ h.pc = "create"
       /\ handler' = [handler EXCEPT ![c] = Idle]
       /\ UNCHANGED <<launcherVars, jobVars, channels, mapVars, message_queue,
                      sendVars, threads, next_request, dbVars>>

\* _assign_unit_to_agent after the agent is made: the reply, the AgentInfo
\* in both indexes, clear_reservation
InstallAgent(c) ==
    LET h == handler[c]
    IN /\ h.pc = "install"
       /\ message_queue' =
             Append(message_queue,
                    AgentDetails(h.channel, h.packet_request_id, h.agent,
                                 FALSE, h.request_id))
       /\ agents' = Put(agents, h.agent,
                        [used_channel_id |-> h.channel,
                         assignment_thread |-> 0])
       /\ agents_by_registration_id' =
             Put(agents_by_registration_id, h.reg, h.agent)
       /\ reservations' = reservations \ {h.unit}
       /\ handler' = [handler EXCEPT ![c].pc = "launch"]
       /\ UNCHANGED <<launcherVars, jobVars, channels, onboarding_packets,
                      sendVars, threads, next_request, agent_objs,
                      unit_agent, onboarding_qual, failed_qual, has_passed,
                      db_workers>>

\* _assign_unit_to_agent, the launch: a unit thread, or for a concurrent
\* task runner the assignment's thread once every unit has its agent
LaunchTask(c) ==
    LET h == handler[c]
        a == h.agent
        members == get_agents
    IN /\ h.pc = "launch"
       /\ IF ~is_concurrent
          THEN /\ threads' = Put(threads, a,
                                 [kind |-> "unit", members |-> {a},
                                  state |-> "running"])
               /\ agents' = [agents EXCEPT ![a].assignment_thread = a]
               /\ handler' = [handler EXCEPT ![c] = Returned(h)]
               /\ UNCHANGED agent_objs
          ELSE IF 0 \in members
          THEN /\ agent_objs' =
                     [agent_objs EXCEPT
                         ![a] = UpdatedStatus(agent_objs[a], "waiting")]
               /\ handler' = [handler EXCEPT ![c] = Returned(h)]
               /\ UNCHANGED <<agents, threads>>
          ELSE IF ~(members \subseteq DOMAIN agents)
          THEN \* self.agents[a.db_id] raises KeyError: the handler ends
               /\ handler' = [handler EXCEPT ![c] = Idle]
               /\ UNCHANGED <<agents, threads, agent_objs>>
          ELSE /\ agent_objs' =
                     [i \in DOMAIN agent_objs |->
                         IF i \in members
                         THEN UpdatedStatus(agent_objs[i], "in_task")
                         ELSE agent_objs[i]]
               /\ agents' =
                     [i \in DOMAIN agents |->
                         IF i \in members
                         THEN [agents[i] EXCEPT !.assignment_thread = a]
                         ELSE agents[i]]
               /\ threads' = Put(threads, a,
                                 [kind |-> "assignment", members |-> members,
                                  state |-> "running"])
               /\ handler' = [handler EXCEPT ![c] = Returned(h)]
       /\ UNCHANGED <<launcherVars, jobVars, channels,
                      agents_by_registration_id, onboarding_packets,
                      message_queue, sendVars, next_request, unit_agent,
                      reservations, onboarding_qual, failed_qual, has_passed,
                      db_workers>>

(***************************************************************************)
(* Supervisor: SUBMIT_ONBOARDING                                           *)
(***************************************************************************)
\* the original registration packet after _on_submit_onboarding has written
\* the submission's request_id into it
AnswerUnderMutant(packet, request_id) == packet
AnswerUnder(packet, request_id) == [packet EXCEPT !.request_id = request_id]

\* the handlers after that write: the packet is one object, shared with
\* every handler that took it from onboarding_packets before
Rewritten(onboard_id, request_id) ==
    [d \in Channels |->
        IF handler[d].onboard = onboard_id
        THEN [handler[d] EXCEPT !.packet_request_id = request_id]
        ELSE handler[d]]

\* int(worker_passed), the value the onboarding qualification is granted with
intMutant(worker_passed) == 1
int(worker_passed) == IF worker_passed THEN 1 ELSE 0

\* the units _register_agent_from_onboarding hands on: the valid units the
\* task runner's filter keeps, none for a worker who failed
UsableUnits(worker, keep, worker_passed) ==
    IF worker_passed
    THEN SelectSeq(get_valid_units_for_worker(worker), LAMBDA u : u \in keep)
    ELSE <<>>

\* _on_submit_onboarding up to the call of _assign_unit_to_agent, for the
\* onboarding agent onboard_id: the request_id is rewritten and the submission queued as an action; then
\* _register_agent_from_onboarding validates, grants the qualifications and
\* picks the units. The channel it answers on is the onboarding agent's
SubmitOnboarding(c) ==
    /\ c \in channels
    /\ handler[c].pc = "idle"
    /\ next_request <= MaxPackets
    /\ \E onboard_id \in DOMAIN agents :
          /\ agent_objs[onboard_id].kind = "onboarding"
          /\ onboard_id \in DOMAIN onboarding_packets
          /\ LET info == agents[onboard_id]
                 obj == agent_objs[onboard_id]
                 packet == AnswerUnder(onboarding_packets[onboard_id],
                                       next_request)
                 acted == [obj EXCEPT !.pending_actions = @ + 1,
                                      !.has_action = TRUE]
             IN /\ onboarding_packets' =
                      [onboarding_packets EXCEPT ![onboard_id] = packet]
                /\ agent_objs' = [agent_objs EXCEPT ![onboard_id] = acted]
                /\ IF info.used_channel_id \notin channels
                   THEN \* self.channels[channel_id] raises KeyError
                        /\ handler' = Rewritten(onboard_id, next_request)
                        /\ UNCHANGED <<onboarding_qual, failed_qual,
                                       has_passed>>
                   ELSE \E worker_passed \in BOOLEAN, keep \in SUBSET Range(Units) :
                        /\ onboarding_qual' =
                              [onboarding_qual EXCEPT
                                  ![obj.worker] = int(worker_passed)]
                        /\ failed_qual' =
                              IF worker_passed THEN failed_qual
                              ELSE failed_qual \cup {obj.worker}
                        /\ has_passed' =
                              IF worker_passed
                              THEN has_passed \cup {obj.worker}
                              ELSE has_passed
                        /\ handler' =
                              [Rewritten(onboard_id, next_request) EXCEPT ![c] =
                                  [Idle EXCEPT
                                      !.pc = "drain",
                                      !.ptype = "submit_onboarding",
                                      !.request_id = next_request,
                                      !.packet_request_id = packet.request_id,
                                      !.reg = packet.reg,
                                      !.worker = obj.worker,
                                      !.channel = info.used_channel_id,
                                      !.units = UsableUnits(obj.worker, keep,
                                                            worker_passed),
                                      !.onboard = onboard_id,
                                      !.worker_passed = worker_passed]]
    /\ next_request' = next_request + 1
    /\ UNCHANGED <<launcherVars, jobVars, channels, agents,
                   agents_by_registration_id, message_queue, sendVars,
                   threads, unit_agent, reservations, db_workers>>

\* a packet as the channel carried it: a reply by the request that caused
\* it, an observation by its agent and its place in what the agent observed
Sent(packet_type, agent, n) ==
    [packet_type |-> packet_type, agent |-> agent, n |-> n]

\* list.insert(0, curr_obs) after a send that failed
ReinsertedMutant(queue, curr_obs) == Append(queue, curr_obs)
Reinserted(queue, curr_obs) == <<curr_obs>> \o queue

\* _try_send_agent_messages as _register_agent_from_onboarding calls it, up
\* to a pop(0): with nothing pending it is over, _send_status_update sends
\* the status and _assign_unit_to_agent is entered
SendAgentMessages(c) ==
    LET h == handler[c]
        obj == agent_objs[h.onboard]
    IN /\ h.pc = "drain"
       /\ IF h.channel \notin channels
          THEN \* self.channels[...] raises KeyError
               /\ handler' = [handler EXCEPT ![c] = Idle]
               /\ UNCHANGED agent_objs
          ELSE IF obj.pending_observations = <<>>
          THEN /\ handler' = [handler EXCEPT ![c].pc = "reserve"]
               /\ UNCHANGED agent_objs
          ELSE /\ handler' =
                     [handler EXCEPT
                         ![c].curr_obs = Head(obj.pending_observations),
                         ![c].pc = "send"]
               /\ agent_objs' =
                     [agent_objs EXCEPT
                         ![h.onboard].pending_observations = Tail(@)]
       /\ UNCHANGED <<launcherVars, jobVars, channels, mapVars, message_queue,
                      sendVars, threads, next_request, unit_agent,
                      reservations, onboarding_qual, failed_qual, has_passed,
                      db_workers>>

\* the channel.send of that loop and what follows it: on to the next
\* observation, or the observation put back and the loop left
SendObservation(c) ==
    LET h == handler[c]
    IN /\ h.pc = "send"
       /\ \E did_send \in BOOLEAN :
             IF did_send
             THEN /\ wire' = Append(wire, Sent("observation", h.onboard,
                                               h.curr_obs))
                  /\ handler' = [handler EXCEPT ![c].curr_obs = 0,
                                                ![c].pc = "drain"]
                  /\ UNCHANGED agent_objs
             ELSE /\ agent_objs' =
                        [agent_objs EXCEPT
                            ![h.onboard].pending_observations =
                                Reinserted(@, h.curr_obs)]
                  /\ handler' = [handler EXCEPT ![c].curr_obs = 0,
                                                ![c].pc = "reserve"]
                  /\ UNCHANGED wire
       /\ UNCHANGED <<launcherVars, jobVars, channels, mapVars, message_queue,
                      sending_thread, sender, threads, next_request,
                      unit_agent, reservations, onboarding_qual, failed_qual,
                      has_passed, db_workers>>

\* _on_submit_onboarding after _register_agent_from_onboarding: the
\* onboarding id is forgotten; a KeyError ends the handler when the
\* onboarding thread removed it first
ForgetOnboarding(c) ==
    LET h == handler[c]
    IN /\ h.pc = "forget"
       /\ IF h.onboard \in DOMAIN agents
          THEN /\ agents' = Del(agents, h.onboard)
               /\ onboarding_packets' = Del(onboarding_packets, h.onboard)
          ELSE UNCHANGED <<agents, onboarding_packets>>
       /\ handler' = [handler EXCEPT ![c] = Idle]
       /\ UNCHANGED <<launcherVars, jobVars, channels,
                      agents_by_registration_id, message_queue,
                      sendVars, threads, next_request, dbVars>>

\* _launch_and_run_onboarding, the finally block, reached when
\* launch_onboarding has returned or raised: an agent not left WAITING is
\* removed from agents and onboarding_packets; a KeyError kills the thread
\* when the submission's handler removed it first
OnboardingThreadExit ==
    \E t \in DOMAIN threads :
        /\ threads[t].kind = "onboarding"
        /\ threads[t].state = "running"
        /\ IF agent_objs[t].db_status = "waiting"
           THEN /\ threads' = [threads EXCEPT ![t].state = "done"]
                /\ UNCHANGED <<agents, onboarding_packets>>
           ELSE IF t \in DOMAIN agents
           THEN /\ agents' = Del(agents, t)
                /\ onboarding_packets' = Del(onboarding_packets, t)
                /\ threads' = [threads EXCEPT ![t].state = "done"]
           ELSE /\ threads' = [threads EXCEPT ![t].state = "dead"]
                /\ UNCHANGED <<agents, onboarding_packets>>
        /\ UNCHANGED <<launcherVars, jobVars, channels,
                       agents_by_registration_id, message_queue,
                       sendVars, handler, next_request, dbVars>>

(***************************************************************************)
(* Supervisor: RETURN_AGENT_STATUS and the status flag                     *)
(***************************************************************************)
\* the statuses the server reports in the model: one it may not know of too
ReportedStatuses == {"none", "in_task", "disconnect", "completed", "bogus"}

\* what _handle_updated_agent_status makes of one entry of the map for an
\* agent it tracks: the agent object after it
ReconciledFinalMutant(obj, status) ==
    IF status \notin ValidStatuses THEN obj
    ELSE IF obj.has_updated_status THEN obj
    ELSE IF status = "none" THEN obj
    ELSE IF status = obj.db_status THEN obj
    ELSE IF status = "completed" THEN obj
    ELSE UpdatedStatus(obj, status)
ReconciledCompletedMutant(obj, status) ==
    IF status \notin ValidStatuses THEN obj
    ELSE IF obj.has_updated_status THEN obj
    ELSE IF status = "none" THEN obj
    ELSE IF status = obj.db_status THEN obj
    ELSE IF obj.db_status \in Complete THEN obj
    ELSE UpdatedStatus(obj, status)
Reconciled(obj, status) ==
    IF status \notin ValidStatuses THEN obj
    ELSE IF obj.has_updated_status THEN obj
    ELSE IF status = "none" THEN obj
    ELSE IF status = obj.db_status THEN obj
    ELSE IF obj.db_status \in Complete THEN obj
    ELSE IF status = "completed" THEN obj
    ELSE UpdatedStatus(obj, status)

\* _handle_updated_agent_status for a map of one entry, on any channel
\* whose thread is free
HandleUpdatedAgentStatus ==
    /\ \E c \in channels : handler[c].pc = "idle"
    /\ \E a \in DOMAIN agents, status \in ReportedStatuses :
          agent_objs' = [agent_objs EXCEPT
                            ![a] = Reconciled(agent_objs[a], status)]
    /\ UNCHANGED <<launcherVars, jobVars, channels, mapVars, message_queue,
                   sendVars, handler, threads, next_request,
                   unit_agent, reservations, onboarding_qual, failed_qual,
                   has_passed, db_workers>>

\* _channel_handling_thread, what it does for one agent of its snapshot as
\* far as the maps and flags go: a raised has_updated_status is sent and
\* cleared; the channel of the agent's used_channel_id is looked up, and a
\* KeyError there kills the thread
PassUpdatedStatus ==
    /\ sending_thread = "running"
    /\ channels # {}
    /\ \E a \in DOMAIN agents :
          IF agents[a].used_channel_id \notin channels
          THEN /\ sending_thread' = "dead"
               /\ UNCHANGED agent_objs
          ELSE /\ agent_objs[a].has_updated_status
               /\ agent_objs' =
                     [agent_objs EXCEPT ![a].has_updated_status = FALSE]
               /\ UNCHANGED sending_thread
    /\ UNCHANGED <<sender, wire, launcherVars, jobVars, channels, mapVars,
                   message_queue,
                   handler, threads, next_request, unit_agent, reservations,
                   onboarding_qual, failed_qual, has_passed,
                      db_workers>>

\* _channel_handling_thread leaves its loop once no channel is left
SendingThreadExit ==
    /\ sending_thread = "running"
    /\ channels = {}
    /\ sending_thread' = "done"
    /\ UNCHANGED <<sender, wire, launcherVars, jobVars, channels, mapVars,
                   message_queue,
                   handler, threads, next_request, dbVars>>

(***************************************************************************)
(* Supervisor: UPDATE_AGENT_STATUS packets                                 *)
(***************************************************************************)
\* STATUS_TO_TEXT_MAP, each text by its first sentence
STATUS_TO_TEXT_MAP ==
    [s \in {"expired", "timeout", "disconnect", "partner_disconnect"} |->
        CASE s = "expired" ->
                 "This task is no longer available to be completed."
          [] s = "timeout" ->
                 "You took to long to respond to this task, and have timed out."
          [] s = "disconnect" ->
                 "You have disconnected from our server during the duration of the task."
          [] s = "partner_disconnect" ->
                 "One of your partners has disconnected while working on this task."]

\* STATUS_TO_TEXT_MAP.get(status)
DoneText(status) ==
    IF status \in DOMAIN STATUS_TO_TEXT_MAP
    THEN STATUS_TO_TEXT_MAP[status]
    ELSE "None"

\* the done_text of _mark_agent_done
ManualDoneText == "You have completed this task. Please submit."

\* an UPDATE_AGENT_STATUS packet as the channel carried it; by is the
\* method that made it
StatusUpdate(agent, status, done_text, task_done, by) ==
    [packet_type |-> "update_agent_status", agent |-> agent, n |-> 0,
     status |-> status, done_text |-> done_text, task_done |-> task_done,
     by |-> by]

\* the most UPDATE_AGENT_STATUS packets begun once this many have been sent
MaxStatusUpdates == 2

\* the UPDATE_AGENT_STATUS packets sent or being made
StatusUpdatesBegun ==
    Len(wire)
        + Cardinality({c \in Channels :
                          handler[c].pc \in {"status_text", "status_send"}})
        + (IF sender.pc \in {"status_text", "status_send"} THEN 1 ELSE 0)

\* the statuses the server reports where the packets sent are checked
NotifiedStatuses == {"none", "disconnect", "partner_disconnect", "completed",
                     "bogus"}

\* _handle_updated_agent_status for a map of one entry, on channel c's
\* thread: as Reconciled has it, but for a status of none, where
\* _send_status_update is entered and reads agent.db_status for the
\* packet's status
StatusReport(c) ==
    /\ c \in channels
    /\ handler[c].pc = "idle"
    /\ \E a \in DOMAIN agents, status \in NotifiedStatuses :
          IF status = "none" /\ ~agent_objs[a].has_updated_status
          THEN /\ StatusUpdatesBegun < MaxStatusUpdates
               /\ handler' =
                     [handler EXCEPT ![c] =
                         [Idle EXCEPT !.pc = "status_text",
                                      !.ptype = "return_agent_status",
                                      !.agent = a,
                                      !.status = agent_objs[a].db_status]]
               /\ UNCHANGED agent_objs
          ELSE /\ agent_objs' = [agent_objs EXCEPT
                                    ![a] = Reconciled(agent_objs[a], status)]
               /\ UNCHANGED handler
    /\ UNCHANGED <<launcherVars, jobVars, channels, mapVars, message_queue,
                   sendVars, threads, next_request, unit_agent,
                   reservations, onboarding_qual, failed_qual, has_passed,
                   db_workers>>

\* _send_status_update on channel c's thread, the second read of
\* agent.db_status: the done_text
StatusText(c) ==
    LET h == handler[c]
    IN /\ h.pc = "status_text"
       /\ handler' =
             [handler EXCEPT
                 ![c].done_text = DoneText(agent_objs[h.agent].db_status),
                 ![c].pc = "status_send"]
       /\ UNCHANGED <<launcherVars, jobVars, channels, mapVars, message_queue,
                      sendVars, threads, next_request, dbVars>>

\* _send_status_update on channel c's thread, the third read of
\* agent.db_status, for task_done, and the send; a KeyError ends the handler
\* when the agent's channel is gone
StatusSend(c) ==
    LET h == handler[c]
    IN /\ h.pc = "status_send"
       /\ wire' =
             IF agents[h.agent].used_channel_id \in channels
             THEN Append(wire,
                         StatusUpdate(h.agent, h.status, h.done_text,
                                      agent_objs[h.agent].db_status
                                          = "partner_disconnect",
                                      "_send_status_update"))
             ELSE wire
       /\ handler' = [handler EXCEPT ![c] = Idle]
       /\ UNCHANGED <<launcherVars, jobVars, channels, mapVars, message_queue,
                      sending_thread, sender, threads, next_request, dbVars>>

\* _channel_handling_thread finds has_updated_status raised for an agent and
\* enters _send_status_update: the first read of agent.db_status
PassStatusRead ==
    /\ sending_thread = "running"
    /\ sender.pc = "top"
    /\ channels # {}
    /\ StatusUpdatesBegun < MaxStatusUpdates
    /\ \E a \in DOMAIN agents :
          /\ agent_objs[a].has_updated_status
          /\ sender' =
                [sender EXCEPT
                    !.pc = "status_text",
                    !.agent = a,
                    !.packet = <<[status |-> agent_objs[a].db_status,
                                  done_text |-> "None"]>>]
    /\ UNCHANGED <<launcherVars, jobVars, channels, mapVars, message_queue,
                   sending_thread, wire, handler, threads, next_request,
                   dbVars>>

\* the second read, for the done_text
PassStatusText ==
    /\ sending_thread = "running"
    /\ sender.pc = "status_text"
    /\ sender' =
          [sender EXCEPT
              !.pc = "status_send",
              !.packet =
                  <<[@[1] EXCEPT
                       !.done_text =
                           DoneText(agent_objs[sender.agent].db_status)]>>]
    /\ UNCHANGED <<launcherVars, jobVars, channels, mapVars, message_queue,
                   sending_thread, wire, handler, threads, next_request,
                   dbVars>>

\* the third read and the send, then has_updated_status.clear(); a KeyError
\* kills the thread when the agent's channel is gone
PassStatusSend ==
    /\ sending_thread = "running"
    /\ sender.pc = "status_send"
    /\ IF agents[sender.agent].used_channel_id \notin channels
       THEN /\ sending_thread' = "dead"
            /\ UNCHANGED <<sender, wire, agent_objs>>
       ELSE /\ wire' =
                  Append(wire,
                         StatusUpdate(sender.agent, sender.packet[1].status,
                                      sender.packet[1].done_text,
                                      agent_objs[sender.agent].db_status
                                          = "partner_disconnect",
                                      "_send_status_update"))
            /\ agent_objs' =
                  [agent_objs EXCEPT ![sender.agent].has_updated_status = FALSE]
            /\ sender' = AtLoopTop
            /\ UNCHANGED sending_thread
    /\ UNCHANGED <<launcherVars, jobVars, channels, mapVars, message_queue,
                   handler, threads, next_request, unit_agent, reservations,
                   onboarding_qual, failed_qual, has_passed, db_workers>>

\* the third read and the send alone: has_updated_status.clear() is a
\* statement of its own, and other threads run between the two
PassStatusSent ==
    /\ sending_thread = "running"
    /\ sender.pc = "status_send"
    /\ IF agents[sender.agent].used_channel_id \notin channels
       THEN /\ sending_thread' = "dead"
            /\ UNCHANGED <<sender, wire>>
       ELSE /\ wire' =
                  Append(wire,
                         StatusUpdate(sender.agent, sender.packet[1].status,
                                      sender.packet[1].done_text,
                                      agent_objs[sender.agent].db_status
                                          = "partner_disconnect",
                                      "_send_status_update"))
            /\ sender' = [sender EXCEPT !.pc = "status_clear"]
            /\ UNCHANGED sending_thread
    /\ UNCHANGED <<launcherVars, jobVars, channels, mapVars, message_queue,
                   handler, threads, next_request, dbVars>>

\* agent_info.agent.has_updated_status.clear()
PassStatusClear ==
    /\ sending_thread = "running"
    /\ sender.pc = "status_clear"
    /\ agent_objs' =
          [agent_objs EXCEPT ![sender.agent].has_updated_status = FALSE]
    /\ sender' = AtLoopTop
    /\ UNCHANGED <<launcherVars, jobVars, channels, mapVars, message_queue,
                   sending_thread, wire, handler, threads, next_request,
                   unit_agent, reservations, onboarding_qual, failed_qual,
                   has_passed, db_workers>>

\* the agents of thread t in the order of agent_infos
MemberSeq(t) ==
    SelectSeq([i \in DOMAIN Units |-> unit_agent[Units[i]]],
              LAMBDA a : a \in threads[t].members)

\* the packets _mark_agent_done sends for the agents of infos, one after the
\* other, up to the first whose channel is gone (KeyError); none for an
\* agent whose status is final or PARTNER_DISCONNECT
RECURSIVE MarkedDone(_)
MarkedDone(infos) ==
    IF infos = <<>> THEN <<>>
    ELSE LET a == Head(infos)
         IN IF agent_objs[a].db_status \in Complete \cup {"partner_disconnect"}
            THEN MarkedDone(Tail(infos))
            ELSE IF agents[a].used_channel_id \notin channels
            THEN <<>>
            ELSE <<StatusUpdate(a, "completed", ManualDoneText, TRUE,
                                "_mark_agent_done")>>
                     \o MarkedDone(Tail(infos))

\* _launch_and_run_unit and _launch_and_run_assignment once the task runner
\* has returned: _mark_agent_done for each agent, then the wait for submits
MarkAgentDone ==
    /\ \E t \in DOMAIN threads :
          /\ threads[t].kind \in {"unit", "assignment"}
          /\ threads[t].state = "running"
          /\ wire' = wire \o MarkedDone(MemberSeq(t))
          /\ threads' = [threads EXCEPT ![t].state = "submitting"]
    /\ UNCHANGED <<launcherVars, jobVars, channels, mapVars, message_queue,
                   sending_thread, sender, handler, next_request, dbVars>>

\* _mark_agent_done raises KeyError for one of the agents of infos: an
\* agent it does not skip has a channel that is gone
MarkRaises(infos) ==
    \E i \in DOMAIN infos :
        /\ agent_objs[infos[i]].db_status
              \notin Complete \cup {"partner_disconnect"}
        /\ agents[infos[i]].used_channel_id \notin channels

\* _launch_and_run_unit and _launch_and_run_assignment, the call of
\* task_runner.launch_unit or launch_assignment comes to its end: it
\* returns, or it raises and the except block calls cleanup_unit or
\* cleanup_assignment, after which the thread is over
TaskRunnerEnds ==
    /\ \E t \in DOMAIN threads, raised \in BOOLEAN :
          /\ threads[t].kind \in {"unit", "assignment"}
          /\ threads[t].state = "running"
          /\ threads' =
                [threads EXCEPT
                    ![t].state = IF raised THEN "cleanup_after_launch"
                                 ELSE "returned"]
    /\ UNCHANGED <<launcherVars, jobVars, channels, mapVars, message_queue,
                   sendVars, handler, next_request, dbVars>>

\* the same threads at _mark_agent_done, inside the try block: the packets
\* are sent, and a KeyError for a channel that is gone is caught by the
\* except block, which calls cleanup_unit or cleanup_assignment
TellAgentsDone ==
    /\ \E t \in DOMAIN threads :
          /\ threads[t].kind \in {"unit", "assignment"}
          /\ threads[t].state = "returned"
          /\ wire' = wire \o MarkedDone(MemberSeq(t))
          /\ threads' =
                [threads EXCEPT
                    ![t].state = IF MarkRaises(MemberSeq(t))
                                 THEN "cleanup_after_mark"
                                 ELSE "told"]
    /\ UNCHANGED <<launcherVars, jobVars, channels, mapVars, message_queue,
                   sending_thread, sender, handler, next_request, dbVars>>

\* the same threads from "if not agent.did_submit.is_set()" on: with the
\* submit in, mark_done(); else the wait on has_action and act(), which
\* returns and mark_done() follows, or raises and the except block calls
\* cleanup_unit or cleanup_assignment
AwaitSubmit ==
    /\ \E t \in DOMAIN threads, did_submit \in BOOLEAN, raised \in BOOLEAN :
          /\ threads[t].kind \in {"unit", "assignment"}
          /\ threads[t].state = "told"
          /\ threads' =
                [threads EXCEPT
                    ![t].state = IF ~did_submit /\ raised
                                 THEN "cleanup_after_act"
                                 ELSE "marked_done"]
    /\ UNCHANGED <<launcherVars, jobVars, channels, mapVars, message_queue,
                   sendVars, handler, next_request, dbVars>>

(***************************************************************************)
(* Supervisor: the control loop, _channel_handling_thread, step by step    *)
(***************************************************************************)
\* the channel an AgentInfo of current_agents names: used_channel_id as it
\* is now, for an AgentInfo dropped from agents since as it was
ChannelOf(a) ==
    IF a \in DOMAIN agents THEN agents[a].used_channel_id ELSE sender.todo[a]

\* the loop's test, len(self.channels) > 0
ChannelsLeftMutant == TRUE
ChannelsLeft == Cardinality(channels) > 0

\* the loop's test and current_agents = list(self.agents.values())
ChannelHandlingLoop ==
    /\ sending_thread = "running"
    /\ sender.pc = "top"
    /\ IF ~ChannelsLeft
       THEN /\ sending_thread' = "done"
            /\ UNCHANGED sender
       ELSE /\ sender' =
                  [sender EXCEPT
                      !.pc = "agents",
                      !.todo = [a \in DOMAIN agents |->
                                   agents[a].used_channel_id]]
            /\ UNCHANGED sending_thread
    /\ UNCHANGED <<launcherVars, jobVars, channels, mapVars, message_queue,
                   wire, handler, threads, next_request, dbVars>>

\* the next agent_info of current_agents: a raised has_updated_status is
\* sent and cleared and _try_send_agent_messages is entered, a KeyError on
\* its channel killing the thread; after the last one, the message queue
NextAgentInfo ==
    /\ sending_thread = "running"
    /\ sender.pc = "agents"
    /\ IF DOMAIN sender.todo = {}
       THEN /\ sender' = [sender EXCEPT !.pc = "queue"]
            /\ UNCHANGED <<sending_thread, agent_objs>>
       ELSE \E a \in DOMAIN sender.todo :
               IF ChannelOf(a) \notin channels
               THEN /\ sending_thread' = "dead"
                    /\ UNCHANGED <<sender, agent_objs>>
               ELSE /\ agent_objs' =
                          [agent_objs EXCEPT ![a].has_updated_status = FALSE]
                    /\ sender' = [sender EXCEPT !.pc = "obs", !.agent = a,
                                                !.todo = Del(@, a)]
                    /\ UNCHANGED sending_thread
    /\ UNCHANGED <<launcherVars, jobVars, channels, mapVars, message_queue,
                   wire, handler, threads, next_request, unit_agent,
                   reservations, onboarding_qual, failed_qual, has_passed,
                   db_workers>>

\* _try_send_agent_messages in the loop, the test and pop(0)
ObservationPop ==
    /\ sending_thread = "running"
    /\ sender.pc = "obs"
    /\ LET pending == agent_objs[sender.agent].pending_observations
       IN IF pending = <<>>
          THEN /\ sender' = [sender EXCEPT !.pc = "agents", !.agent = 0]
               /\ UNCHANGED agent_objs
          ELSE /\ sender' = [sender EXCEPT !.pc = "obs_send",
                                           !.obs = Head(pending)]
               /\ agent_objs' =
                     [agent_objs EXCEPT
                         ![sender.agent].pending_observations = Tail(@)]
    /\ UNCHANGED <<launcherVars, jobVars, channels, mapVars, message_queue,
                   sending_thread, wire, handler, threads, next_request,
                   unit_agent, reservations, onboarding_qual, failed_qual,
                   has_passed, db_workers>>

\* its channel.send and what follows: the next observation, or the
\* observation put back and the agent left for this round
ObservationSend ==
    /\ sending_thread = "running"
    /\ sender.pc = "obs_send"
    /\ \E did_send \in BOOLEAN :
          IF did_send
          THEN /\ wire' = Append(wire, Sent("observation", sender.agent,
                                            sender.obs))
               /\ sender' = [sender EXCEPT !.pc = "obs", !.obs = 0]
               /\ UNCHANGED agent_objs
          ELSE /\ agent_objs' =
                     [agent_objs EXCEPT
                         ![sender.agent].pending_observations =
                             Reinserted(@, sender.obs)]
               /\ sender' = [sender EXCEPT !.pc = "agents", !.agent = 0,
                                           !.obs = 0]
               /\ UNCHANGED wire
    /\ UNCHANGED <<launcherVars, jobVars, channels, mapVars, message_queue,
                   sending_thread, handler, threads, next_request,
                   unit_agent, reservations, onboarding_qual, failed_qual,
                   has_passed, db_workers>>

\* _send_message_queue, the test and pop(0) with the lookup of the
\* receiver's channel, a KeyError there killing the thread; with the queue
\* empty the round ends with _request_status_update and the sleep
MessageQueuePop ==
    /\ sending_thread = "running"
    /\ sender.pc = "queue"
    /\ IF message_queue = <<>>
       THEN /\ sender' = AtLoopTop
            /\ UNCHANGED <<message_queue, sending_thread>>
       ELSE /\ message_queue' = Tail(message_queue)
            /\ IF Head(message_queue).receiver_id \notin channels
               THEN /\ sending_thread' = "dead"
                    /\ UNCHANGED sender
               ELSE /\ sender' = [sender EXCEPT
                                     !.pc = "queue_send",
                                     !.packet = <<Head(message_queue)>>]
                    /\ UNCHANGED sending_thread
    /\ UNCHANGED <<launcherVars, jobVars, channels, mapVars, wire, handler,
                   threads, next_request, dbVars>>

\* channel.send(curr_obs) returns true: on to the next packet of the queue
MessageQueueSent ==
    /\ sending_thread = "running"
    /\ sender.pc = "queue_send"
    /\ wire' = Append(wire, Sent(sender.packet[1].packet_type, 0,
                                 sender.packet[1].cause))
    /\ sender' = [sender EXCEPT !.pc = "queue", !.packet = <<>>]
    /\ UNCHANGED <<launcherVars, jobVars, channels, mapVars, message_queue,
                   sending_thread, handler, threads, next_request, dbVars>>

\* channel.send(curr_obs) returns false: the packet goes back to the head
\* of the queue and the round ends
MessageQueueNotSent ==
    /\ sending_thread = "running"
    /\ sender.pc = "queue_send"
    /\ message_queue' = Reinserted(message_queue, sender.packet[1])
    /\ sender' = AtLoopTop
    /\ UNCHANGED <<launcherVars, jobVars, channels, mapVars, sending_thread,
                   wire, handler, threads, next_request, dbVars>>

\* a step of the control loop
ControlLoop ==
    \/ ChannelHandlingLoop
    \/ NextAgentInfo
    \/ ObservationPop
    \/ ObservationSend
    \/ MessageQueuePop
    \/ MessageQueueSent
    \/ MessageQueueNotSent

\* the onboarding task of a running thread gives its agent a packet to
\* observe
Observe ==
    /\ \E t \in DOMAIN threads, a \in DOMAIN agent_objs :
          /\ threads[t].kind = "onboarding"
          /\ threads[t].state = "running"
          /\ a \in threads[t].members
          /\ SumSeq([i \in DOMAIN agent_objs |-> agent_objs[i].n_observed])
                < MaxObservations
          /\ agent_objs' = [agent_objs EXCEPT ![a] = observe(@)]
    /\ UNCHANGED <<launcherVars, jobVars, channels, mapVars, message_queue,
                   sendVars, handler, threads, next_request, unit_agent,
                   reservations, onboarding_qual, failed_qual, has_passed,
                   db_workers>>

(***************************************************************************)
(* Supervisor: NEW_WORKER and GET_INIT_DATA                                *)
(***************************************************************************)
\* the names NEW_WORKER packets carry
WorkerNames == {"w1", "w2", "w3"}

\* worker_name + "_sandbox"
Sandbox(name) == name \o "_sandbox"

\* the worker _register_worker settles on: the one of that name, else the
\* one of the sandbox name, else a new one of that name
FoundWorkerMutant(name) == name
FoundWorker(name) ==
    IF name \in db_workers THEN name
    ELSE IF Sandbox(name) \in db_workers THEN Sandbox(name)
    ELSE name

\* _register_worker; worker_is_qualified is the job's to decide
RegisterWorker(c) ==
    /\ c \in channels
    /\ handler[c].pc = "idle"
    /\ next_request <= MaxPackets
    /\ \E name \in WorkerNames, qualified \in BOOLEAN :
          /\ db_workers' = db_workers \cup {FoundWorker(name)}
          /\ message_queue' =
                Append(message_queue,
                       WorkerDetails(c, next_request, FoundWorker(name),
                                     qualified, next_request))
    /\ next_request' = next_request + 1
    /\ UNCHANGED <<launcherVars, jobVars, channels, mapVars, sendVars,
                   handler, threads, agent_objs, unit_agent, reservations,
                   onboarding_qual, failed_qual, has_passed>>

\* the most raw_messages the init data of one agent holds
MaxRawMessages == 1

\* _get_init_data for an Agent the Supervisor tracks: the INIT_DATA reply,
\* and the init data's raw_messages queued as observations of the agent
GetInitData(c) ==
    /\ c \in channels
    /\ handler[c].pc = "idle"
    /\ next_request <= MaxPackets
    /\ \E a \in DOMAIN agents, n \in 0..MaxRawMessages :
          /\ agent_objs[a].kind = "agent"
          /\ message_queue' =
                Append(message_queue, InitData(c, next_request, next_request))
          /\ agent_objs' =
                [agent_objs EXCEPT
                    ![a].pending_observations =
                        @ \o [k \in 1..n |-> agent_objs[a].n_observed + k],
                    ![a].n_observed = @ + n]
    /\ next_request' = next_request + 1
    /\ UNCHANGED <<launcherVars, jobVars, channels, mapVars, sendVars,
                   handler, threads, unit_agent, reservations,
                   onboarding_qual, failed_qual, has_passed,
                      db_workers>>

(***************************************************************************)
(* The specifications of the Supervisor. Packet handlers run one per       *)
(* channel, each on its channel's thread, a step at a time.                *)
(***************************************************************************)
\* a job whose blueprint asks for no onboarding
InitPlainJob ==
    /\ max_num_concurrent_units = 1
    /\ assignment_data_list = <<>>
    /\ LauncherNew
    /\ is_concurrent \in BOOLEAN
    /\ use_onboarding = FALSE
    /\ SupervisorNew

\* the handling of NEW_AGENT on channel c
NewAgentOn(c) ==
    \/ RegisterAgent(c)
    \/ OnboardingGate(c)
    \/ ReserveUnit(c)
    \/ CreateAgent(c)
    \/ InstallAgent(c)
    \/ LaunchTask(c)

\* the handling of NEW_AGENT
NewAgentSteps ==
    \/ \E c \in Channels : RegisterAgent(c)
    \/ \E c \in Channels : OnboardingGate(c)
    \/ \E c \in Channels : ReserveUnit(c)
    \/ \E c \in Channels : CreateAgent(c)
    \/ \E c \in Channels : InstallAgent(c)
    \/ \E c \in Channels : LaunchTask(c)

\* register_job and the handling of NEW_AGENT
RegistrationSteps ==
    \/ register_job
    \/ NewAgentSteps

\* Spec: registration, onboarding and the requests that are answered
Next ==
    \/ RegistrationSteps
    \/ \E c \in Channels : SubmitOnboarding(c)
    \/ \E c \in Channels : SendAgentMessages(c)
    \/ \E c \in Channels : ForgetOnboarding(c)
    \/ OnboardingThreadExit
    \/ \E c \in Channels : RegisterWorker(c)
    \/ \E c \in Channels : GetInitData(c)

Spec == InitSupervisor /\ [][Next]_vars

\* SpecReserve: registration with agent creation that may fail
NextReserve ==
    \/ RegistrationSteps
    \/ \E c \in Channels : CreateAgentRaises(c)

SpecReserve == InitSupervisor /\ [][NextReserve]_vars

\* SpecStatus: registration without onboarding, the server's status reports
\* and the control loop passing on the statuses that changed
NextStatus ==
    \/ RegistrationSteps
    \/ launch_sending_thread
    \/ HandleUpdatedAgentStatus
    \/ PassUpdatedStatus

SpecStatus == InitPlainJob /\ [][NextStatus]_vars

\* SpecChannels: registration without onboarding, channels being closed
\* under the control loop
NextChannels ==
    \/ RegistrationSteps
    \/ launch_sending_thread
    \/ \E c \in Channels : close_channel(c)
    \/ shutdown_job
    \/ shutdown
    \/ PassUpdatedStatus
    \/ SendingThreadExit

SpecChannels == InitPlainJob /\ [][NextChannels]_vars

\* SpecNotify: agents registering over the first channel, without
\* onboarding, while the server reports statuses on both channels, the
\* control loop passes on the statuses that changed and the tasks end;
\* every UPDATE_AGENT_STATUS sent is on the wire
NextNotify ==
    \/ register_job
    \/ NewAgentOn("c1")
    \/ launch_sending_thread
    \/ \E c \in Channels : StatusReport(c)
    \/ \E c \in Channels : StatusText(c)
    \/ \E c \in Channels : StatusSend(c)
    \/ PassStatusRead
    \/ PassStatusText
    \/ PassStatusSend
    \/ MarkAgentDone

SpecNotify == InitPlainJob /\ [][NextNotify]_vars

\* SpecFlag: agents registering over the first channel, their statuses
\* set by the handler's thread, while the control loop passes on the
\* statuses flagged, statement by statement
NextFlag ==
    \/ register_job
    \/ NewAgentOn("c1")
    \/ launch_sending_thread
    \/ PassStatusRead
    \/ PassStatusText
    \/ PassStatusSent
    \/ PassStatusClear

SpecFlag == InitPlainJob /\ [][NextFlag]_vars

\* SpecTask: agents registering over the first channel, the threads of
\* their units or assignments running to their end, and shutdown() called
\* at any moment
NextTask ==
    \/ register_job
    \/ NewAgentOn("c1")
    \/ TaskRunnerEnds
    \/ TellAgentsDone
    \/ AwaitSubmit
    \/ shutdown

SpecTask == InitPlainJob /\ [][NextTask]_vars

\* SpecRegister: register_job channel by channel, each channel coming alive
\* in time or not, while channels are closed and the channels that are
\* alive bring NEW_WORKER packets
NextRegister ==
    \/ \E c \in Channels : register_channel(c)
    \/ \E c \in Channels : ChannelAlive(c)
    \/ \E c \in Channels : ConnectRefused(c)
    \/ \E c \in Channels : close_channel(c)
    \/ \E c \in Channels : connection[c] = "alive" /\ RegisterWorker(c)

SpecRegister == InitPlainJob /\ [][NextRegister]_vars

\* SpecShutdown: agents registering over the first channel and workers
\* over the second while the control loop runs, and shutdown() called at any
\* moment; the control loop's thread keeps being scheduled
NextShutdown ==
    \/ register_job
    \/ NewAgentOn("c1")
    \/ launch_sending_thread
    \/ RegisterWorker("c2")
    \/ GetInitData("c1")
    \/ ControlLoop
    \/ shutdown

SpecShutdown ==
    /\ InitPlainJob
    /\ [][NextShutdown]_vars
    /\ WF_vars(ControlLoop)

\* a Supervisor made over a task run whose first units, or all of them, have
\* their agents already, made in an earlier session that this Supervisor
\* does not track
InitUnitsTaken ==
    /\ max_num_concurrent_units = 1
    /\ assignment_data_list = <<>>
    /\ LauncherNew
    /\ is_concurrent = FALSE
    /\ use_onboarding \in BOOLEAN
    /\ registered_channel_ids = <<>>
    /\ connection = [c \in Channels |-> "new"]
    /\ channels = {}
    /\ agents = EmptyMap
    /\ agents_by_registration_id = EmptyMap
    /\ onboarding_packets = EmptyMap
    /\ message_queue = <<>>
    /\ sending_thread = "none"
    /\ sender = AtLoopTop
    /\ wire = <<>>
    /\ handler = [c \in Channels |-> Idle]
    /\ threads = EmptyMap
    /\ next_request = 1
    /\ \E n \in 1..Len(Units) :
          /\ agent_objs = [i \in 1..n |->
                              NewAgentObj("agent", "w3", Units[i], "none",
                                          "earlier")]
          /\ unit_agent = [u \in Range(Units) |->
                              LET i == CHOOSE k \in DOMAIN Units : Units[k] = u
                              IN IF i <= n THEN i ELSE 0]
    /\ reservations = {}
    /\ onboarding_qual = [w \in AllWorkers |-> -1]
    /\ failed_qual = {}
    /\ has_passed = {}
    /\ db_workers = AllWorkers

\* SpecTaken: registration and onboarding as in Spec, with one unit left or
\* none
SpecTaken == InitUnitsTaken /\ [][Next]_vars

\* a job of a task that is not concurrent, registered with the one channel
\* its architect has, and nothing else done yet
OneChannelJob ==
    /\ max_num_concurrent_units = 1
    /\ assignment_data_list = <<>>
    /\ LauncherNew
    /\ is_concurrent = FALSE
    /\ registered_channel_ids = <<"c1">>
    /\ connection = [c \in Channels |-> IF c = "c1" THEN "alive" ELSE "new"]
    /\ channels = {"c1"}
    /\ agents = EmptyMap
    /\ agents_by_registration_id = EmptyMap
    /\ onboarding_packets = EmptyMap
    /\ message_queue = <<>>
    /\ sending_thread = "none"
    /\ sender = AtLoopTop
    /\ wire = <<>>
    /\ handler = [c \in Channels |-> Idle]
    /\ threads = EmptyMap
    /\ next_request = 1
    /\ agent_objs = <<>>
    /\ unit_agent = [u \in Range(Units) |-> 0]
    /\ reservations = {}
    /\ onboarding_qual = [w \in AllWorkers |-> -1]
    /\ failed_qual = {}
    /\ has_passed = {}
    /\ db_workers = InitialWorkers

\* SpecSend: requests answered and agents registered while the control loop
\* drains the message queue and the agents' observations over a channel
\* whose send fails at times; the loop keeps running and a send that is
\* tried again and again succeeds in the end
InitPlainOneChannelJob ==
    /\ use_onboarding = FALSE
    /\ OneChannelJob

NextSend ==
    \/ NewAgentSteps
    \/ launch_sending_thread
    \/ \E c \in Channels : RegisterWorker(c)
    \/ \E c \in Channels : GetInitData(c)
    \/ ControlLoop

SpecSend ==
    /\ InitPlainOneChannelJob
    /\ [][NextSend]_vars
    /\ WF_vars(ControlLoop)
    /\ SF_vars(MessageQueueSent)

\* SpecObserve: onboarding with its task giving the agent packets, which
\* the control loop and the handler of SUBMIT_ONBOARDING both send on
InitOnboardingJob ==
    /\ use_onboarding = TRUE
    /\ OneChannelJob

NextObserve ==
    \/ NewAgentSteps
    \/ launch_sending_thread
    \/ Observe
    \/ \E c \in Channels : SubmitOnboarding(c)
    \/ \E c \in Channels : SendAgentMessages(c)
    \/ \E c \in Channels : SendObservation(c)
    \/ \E c \in Channels : ForgetOnboarding(c)
    \/ ControlLoop

SpecObserve == InitOnboardingJob /\ [][NextObserve]_vars

(***************************************************************************)
(* Claims about registration.                                              *)
(***************************************************************************)
\* the ids of the Agents (not OnboardingAgents) the Supervisor tracks
TrackedAgents == {a \in DOMAIN agents : agent_objs[a].kind = "agent"}

\* C1: under any interleaving of NEW_AGENT handling on the channels, no two
\* AgentInfos in agents are bound to the same Unit.
C1_OneAgentPerUnit ==
    \A a, b \in TrackedAgents :
        a # b => agent_objs[a].unit # agent_objs[b].unit

\* the agents and onboarding agents made while handling a NEW_AGENT packet
\* of registration id reg
MadeForRegistration(reg) ==
    {i \in DOMAIN agent_objs :
        agent_objs[i].reg = reg /\ agent_objs[i].via = "new_agent"}

\* C2: of the NEW_AGENT packets that share one agent_registration_id only
\* the first creates an AgentInfo (Agent or OnboardingAgent); later ones,
\* also those arriving while the worker is onboarding, create nothing.
C2_FirstRegistrationOnly ==
    \A reg \in RegistrationIds : Cardinality(MadeForRegistration(reg)) <= 1

\* the replies that name an Agent
AgentReplies ==
    {i \in DOMAIN message_queue :
        /\ message_queue[i].agent_id # 0
        /\ ~message_queue[i].onboard_data}

\* the handlers of a SUBMIT_ONBOARDING that validate_onboarding turned down
FailedSubmissions ==
    {c \in Channels : /\ handler[c].ptype = "submit_onboarding"
                      /\ ~handler[c].worker_passed}

\* C6: with onboarding required, no unit is reserved for or assigned to a
\* worker whom validate_onboarding has not passed: no handler holds a
\* reservation for such a worker, no Agent of such a worker exists and no
\* reply names one; the handler of a submission that was turned down
\* reserves nothing, makes no Agent and replies without an agent.
C6_NoUnitBeforeOnboarding ==
    use_onboarding =>
        /\ \A c \in Channels :
              handler[c].reserved => handler[c].worker \in has_passed
        /\ \A c \in FailedSubmissions :
              /\ ~handler[c].reserved
              /\ handler[c].agent = 0
              /\ \A i \in DOMAIN message_queue :
                    message_queue[i].cause = handler[c].request_id
                        => message_queue[i].agent_id = 0
        /\ \A a \in DOMAIN agent_objs :
              agent_objs[a].kind = "agent"
                  => agent_objs[a].worker \in has_passed
        /\ \A i \in AgentReplies :
              agent_objs[message_queue[i].agent_id].worker \in has_passed

\* C6's case: a worker failed onboarding and was answered without an agent,
\* registered again, disqualified now, and was answered without one again;
\* nothing is reserved and no Agent exists
C6_Witness ==
    /\ use_onboarding
    /\ failed_qual # {}
    /\ Len(message_queue) = 3
    /\ message_queue[2].agent_id = 0
    /\ message_queue[2].cause = 2
    /\ message_queue[3].agent_id = 0
    /\ \A c \in Channels : handler[c].pc = "idle"
    /\ reservations = {}

\* C7: every PROVIDER_DETAILS or INIT_DATA packet in message_queue carries
\* the request_id of the inbound packet whose handling appended it.
C7_ReplyCarriesRequestId ==
    \A i \in DOMAIN message_queue :
        message_queue[i].packet_type \in {"provider_details", "init_data"}
            => message_queue[i].request_id = message_queue[i].cause

\* the replies that name an Agent made on a SUBMIT_ONBOARDING
SubmissionReplies ==
    {i \in AgentReplies :
        agent_objs[message_queue[i].agent_id].via = "submit_onboarding"}

\* the request_ids of the NEW_AGENT packets that started onboarding for the
\* registration id reg: the ones their onboarding replies went out under
RegistrationRequests(reg) ==
    {message_queue[j].request_id : j \in
        {k \in DOMAIN message_queue :
            /\ message_queue[k].onboard_data
            /\ agent_objs[message_queue[k].agent_id].reg = reg}}

\* C12 as stated: the reply that names the Agent made on a passed
\* SUBMIT_ONBOARDING is addressed to the request_id r0 of the NEW_AGENT that
\* started the onboarding.
C12_ReplyToRegistration ==
    \A i \in SubmissionReplies :
        message_queue[i].request_id \in
            RegistrationRequests(agent_objs[message_queue[i].agent_id].reg)

\* C12, amended: the reply that names the Agent made on a passed
\* SUBMIT_ONBOARDING is addressed to the request_id of a SUBMIT_ONBOARDING,
\* the one handled or one that arrived after it (request_ids number the
\* inbound packets in the order of their arrival), never to the request_id
\* of the NEW_AGENT that started the onboarding.
C12_ReplyToSubmission ==
    \A i \in SubmissionReplies :
        /\ message_queue[i].request_id >= message_queue[i].cause
        /\ message_queue[i].request_id \notin
              RegistrationRequests(agent_objs[message_queue[i].agent_id].reg)

\* C12's case: a NEW_AGENT started onboarding under one request_id and the
\* Agent made on the SUBMIT_ONBOARDING is announced under the submission's
C12_Witness ==
    \E i \in SubmissionReplies :
        /\ message_queue[i].request_id = message_queue[i].cause
        /\ \E r \in RegistrationRequests(
                       agent_objs[message_queue[i].agent_id].reg) :
              r < message_queue[i].request_id

\* C27: an onboarding thread that finishes, under every interleaving with
\* the SUBMIT_ONBOARDING handler of its onboarding id, completes its
\* eviction without error (it never dies in it), and once it is over with
\* an agent whose status is not WAITING the id is a key of neither agents
\* nor onboarding_packets.
C27_EvictionCompletes ==
    \A t \in DOMAIN threads :
        threads[t].kind = "onboarding" =>
            /\ threads[t].state # "dead"
            /\ (threads[t].state = "done" /\ agent_objs[t].db_status # "waiting")
                   => (t \notin DOMAIN agents /\ t \notin DOMAIN onboarding_packets)

\* the units a call of _assign_unit_to_agent in progress has reserved and
\* not yet cleared
HeldByCall ==
    {handler[c].unit : c \in {d \in Channels : /\ handler[d].pc \in {"create", "install"}
                                              /\ handler[d].reserved}}

\* C29: no unit reservation outlives the _assign_unit_to_agent call that
\* made it, whether the call ended normally or because
\* new_from_provider_data raised: every reserved unit is the one unit
\* reserved by a call still in progress.
C29_ReservationCleared == reservations \subseteq HeldByCall

\* the onboarding agents a SUBMIT_ONBOARDING has been handled for: the
\* submission was queued as an action and no handler has it in hand
SubmissionsHandled ==
    {o \in DOMAIN agent_objs :
        /\ agent_objs[o].kind = "onboarding"
        /\ agent_objs[o].pending_actions > 0
        /\ \A c \in Channels : handler[c].onboard # o}

\* C13: after a SUBMIT_ONBOARDING from onboarding id o has been handled, o
\* is a key of neither agents nor onboarding_packets, whatever the
\* validation outcome and whether or not a unit could be assigned.
C13_OnboardingForgotten ==
    \A o \in SubmissionsHandled :
        o \notin DOMAIN agents /\ o \notin DOMAIN onboarding_packets

\* what C16 asks of a step that handles NEW_WORKER with worker_name name:
\* the workers after it and the one reply it appends
NewWorkerHandled(name) ==
    LET reply == message_queue'[Len(message_queue')]
        worker == IF name \in db_workers THEN name
                  ELSE IF Sandbox(name) \in db_workers THEN Sandbox(name)
                  ELSE name
    IN /\ (name \in db_workers \/ Sandbox(name) \in db_workers)
             => db_workers' = db_workers
       /\ (name \notin db_workers /\ Sandbox(name) \notin db_workers)
             => db_workers' = db_workers \cup {name}
       /\ message_queue' = Append(message_queue, reply)
       /\ reply.packet_type = "provider_details"
       /\ reply.worker_id = IF reply.qualified THEN worker ELSE "none"

\* C16: handling NEW_WORKER with worker_name n uses the worker named n if
\* there is one, else the worker named n_sandbox if there is one, and makes
\* a new worker only when there is neither; it appends exactly one
\* PROVIDER_DETAILS reply, whose worker_id is that worker's id when the
\* worker meets the job's qualifications and None otherwise.
C16_WorkerRegistered ==
    [][\A c \in Channels :
          RegisterWorker(c) => \E name \in WorkerNames : NewWorkerHandled(name)]_vars

\* C16's case: NEW_WORKER for a name known only with the sandbox suffix was
\* answered with the sandbox worker's id, and no worker was made
C16_Witness ==
    /\ db_workers = InitialWorkers
    /\ \E i \in DOMAIN message_queue :
          message_queue[i].worker_id = "w2_sandbox"

\* C19: on every SUBMIT_ONBOARDING that gets as far as validate_onboarding,
\* the onboarding qualification is granted to the worker with 1 when
\* validate_onboarding returned true and with 0 when it returned false, and
\* the onboarding-failed qualification is granted if and only if it
\* returned false.
C19_QualificationsGranted ==
    [][\A c \in Channels :
          (SubmitOnboarding(c) /\ handler'[c].ptype = "submit_onboarding") =>
              LET worker == handler'[c].worker
              IN IF handler'[c].worker_passed
                 THEN /\ onboarding_qual'[worker] = 1
                      /\ failed_qual' = failed_qual
                 ELSE /\ onboarding_qual'[worker] = 0
                      /\ failed_qual' = failed_qual \cup {worker}]_vars

\* C19's case: a submission has just been turned down: its handler is past
\* the grants, and the worker holds the onboarding qualification with 0 and
\* the onboarding-failed one
C19_Witness ==
    \E c \in Channels :
        /\ handler[c].ptype = "submit_onboarding"
        /\ handler[c].pc = "drain"
        /\ ~handler[c].worker_passed
        /\ onboarding_qual[handler[c].worker] = 0
        /\ handler[c].worker \in failed_qual

\* the replies of _register_agent and _assign_unit_to_agent: worker replies
\* are the ones that keep worker_is_qualified's result
AgentDetailsSent ==
    {i \in DOMAIN message_queue :
        /\ message_queue[i].packet_type = "provider_details"
        /\ "qualified" \notin DOMAIN message_queue[i]}

\* C21: a first-time NEW_AGENT for a worker with no valid unit is answered
\* with agent_id None and installs nothing: no reply to a request that was
\* answered with agent_id None names an OnboardingAgent or an Agent, and no
\* AgentInfo or onboarding thread exists when no unit was ever free.
C21_NoUnitsNoAgent ==
    /\ \A i, j \in AgentDetailsSent :
          (/\ message_queue[i].cause = message_queue[j].cause
           /\ message_queue[i].agent_id = 0)
              => message_queue[j].agent_id = 0
    /\ (\A u \in Range(Units) : /\ unit_agent[u] # 0
                                  /\ agent_objs[unit_agent[u]].via = "earlier")
          => (DOMAIN agents = {} /\ DOMAIN threads = {})

\* C28: every NEW_AGENT packet handled gets one PROVIDER_DETAILS reply for
\* its request_id, never two: no two replies in message_queue were caused
\* by the same request.
C28_OneReplyPerRequest ==
    \A i, j \in AgentDetailsSent :
        message_queue[i].cause = message_queue[j].cause => i = j

\* the assignment threads started
AssignmentThreads == {t \in DOMAIN threads : threads[t].kind = "assignment"}

\* C10: for a concurrent task runner, under any interleaving of the
\* NEW_AGENT handlers, no assignment thread is started while a unit of the
\* assignment has no agent, at most one is started for the assignment, and
\* every participant's AgentInfo holds that thread.
C10_OneAssignmentThread ==
    is_concurrent =>
        /\ (0 \in get_agents => AssignmentThreads = {})
        /\ Cardinality(AssignmentThreads) <= 1
        /\ \A t \in AssignmentThreads :
              \A a \in threads[t].members : agents[a].assignment_thread = t

(***************************************************************************)
(* Claims about statuses and channels.                                     *)
(***************************************************************************)
\* C4: once an agent's status is in the complete() set, no Supervisor step
\* changes it to a status outside that set.
C4_CompleteIsFinal ==
    [][\A a \in DOMAIN agent_objs :
          agent_objs[a].db_status \in Complete
              => agent_objs'[a].db_status \in Complete]_vars

\* C5: every AgentInfo in agents has a used_channel_id that is a key of
\* channels.
C5_AgentChannelRegistered ==
    \A a \in DOMAIN agents : agents[a].used_channel_id \in channels

\* the UPDATE_AGENT_STATUS packets sent
StatusUpdates ==
    {i \in DOMAIN wire : wire[i].packet_type = "update_agent_status"}

\* C14: every UPDATE_AGENT_STATUS packet sent has, when _send_status_update
\* made it, the done_text of the fixed map for the status it carries and
\* task_done true iff that status is PARTNER_DISCONNECT; when
\* _mark_agent_done made it, the status completed, the manual-completion
\* text and task_done true.
C14_DoneTextOfStatus ==
    \A i \in StatusUpdates :
        IF wire[i].by = "_send_status_update"
        THEN /\ wire[i].done_text = DoneText(wire[i].status)
             /\ wire[i].task_done = (wire[i].status = "partner_disconnect")
        ELSE /\ wire[i].status = "completed"
             /\ wire[i].done_text = ManualDoneText
             /\ wire[i].task_done

\* C15: when an agent's local status is in complete(), a
\* RETURN_AGENT_STATUS entry that reports a different valid status for it
\* leaves the agent's status, queues and flags as they were, and agents too.
C15_FinalAgentUntouched ==
    [][\A c \in Channels :
          StatusReport(c) =>
              /\ \A a \in DOMAIN agent_objs :
                    agent_objs[a].db_status \in Complete
                        => agent_objs'[a] = agent_objs[a]
              /\ agents' = agents]_vars

\* C15's case: an agent whose status is final and whose flag the control
\* loop has cleared, which a status report is checked against, with a
\* channel's thread free to take the report
C15_Witness ==
    \E a \in DOMAIN agents :
        /\ agent_objs[a].db_status \in Complete
        /\ ~agent_objs[a].has_updated_status
        /\ \E c \in channels : handler[c].pc = "idle"

\* C20: no RETURN_AGENT_STATUS packet sets an agent's local status to
\* COMPLETED: an agent that is not COMPLETED before
\* _handle_updated_agent_status is not COMPLETED after it, whatever the
\* status map holds.
C20_CompletedOnlyLocally ==
    [][\A c \in Channels :
          StatusReport(c) =>
              \A a \in DOMAIN agent_objs :
                  agent_objs[a].db_status # "completed"
                      => agent_objs'[a].db_status # "completed"]_vars

\* C20's case: an agent that is tracked, not final and with its flag down,
\* so that a report of COMPLETED for it gets as far as the test for it
C20_Witness ==
    \E a \in DOMAIN agents :
        /\ agent_objs[a].db_status \in ValidStatuses \ Complete
        /\ agent_objs[a].db_status # "none"
        /\ ~agent_objs[a].has_updated_status
        /\ \E c \in channels : handler[c].pc = "idle"

\* C25: in the unit, assignment and onboarding threads the matching
\* cleanup_unit / cleanup_assignment / cleanup_onboarding is invoked if
\* and only if launch_unit / launch_assignment / launch_onboarding or
\* agent.act() raised: a thread that called cleanup did so after one of
\* the two raised.
C25_CleanupOnlyAfterRaise ==
    \A t \in DOMAIN threads :
        threads[t].state \in {"cleanup_after_launch", "cleanup_after_mark",
                              "cleanup_after_act"}
            => threads[t].state \in {"cleanup_after_launch",
                                     "cleanup_after_act"}

\* C26: in a unit thread whose launch_unit returned without raising,
\* agent.mark_done() is called, once, after the worker was told the task
\* is done and after the wait and act() when did_submit is unset, whatever
\* channel and shutdown events occur in the meantime: a unit thread that
\* is over after launch_unit returned, with no act() that raised, has
\* called mark_done().
C26_UnitMarkedDone ==
    \A t \in DOMAIN threads :
        (/\ threads[t].kind = "unit"
         /\ threads[t].state \notin {"running", "returned", "told",
                                      "cleanup_after_launch",
                                      "cleanup_after_act"})
            => threads[t].state = "marked_done"

\* the statuses _send_status_update has handed to the channel for agent a,
\* in the order sent
StatusesSent(a) ==
    SelectSeq(wire, LAMBDA p : /\ p.packet_type = "update_agent_status"
                               /\ p.agent = a
                               /\ p.by = "_send_status_update")

\* C30: every status change signalled by setting has_updated_status is
\* followed by an UPDATE_AGENT_STATUS packet carrying that status or a
\* later one, under every interleaving with the control loop's test, send
\* and clear: once the flag of an agent is clear, with the loop not at work
\* on it, the last packet handed to the channel carries the status the
\* agent has (no change is left that nothing will send).
C30_FlaggedStatusSent ==
    \A a \in DOMAIN agents :
        (/\ ~agent_objs[a].has_updated_status
         /\ agent_objs[a].db_status # "none"
         /\ sender.agent # a)
            => /\ StatusesSent(a) # <<>>
               /\ StatusesSent(a)[Len(StatusesSent(a))].status
                      = agent_objs[a].db_status

\* C17: a channel id is a key of channels only while register_channel is
\* at work on it or has succeeded for it, the channel not closed since:
\* when register_channel has failed with ConnectRefused the channel is
\* closed and its id is no key of channels.
C17_IndexedOnlyIfAlive ==
    \A c \in channels : connection[c] \in {"opening", "alive"}

\* C18: shutdown() called with the control loop running closes every
\* registered channel and leaves channels empty, and with channels empty the
\* control loop's thread ends, so that the join of shutdown() returns,
\* whatever agents and queued packets there are.
C18_ShutdownEnds ==
    /\ [][shutdown =>
            /\ channels' = {}
            /\ \A c \in channels : connection'[c] = "closed"]_vars
    /\ (channels = {} /\ sending_thread = "running")
           ~> (sending_thread \in {"done", "dead"})

\* C18's case: shutdown() has closed both channels while the control loop
\* was in the middle of a round, with an agent tracked and a reply queued
C18_Witness ==
    /\ channels = {}
    /\ \A c \in Channels : connection[c] = "closed"
    /\ sending_thread = "running"
    /\ sender.pc # "top"
    /\ DOMAIN agents # {}
    /\ message_queue # <<>>

(***************************************************************************)
(* Claims about sending.                                                   *)
(***************************************************************************)
\* the requests whose replies have gone over a channel, in the order sent
RepliesSent ==
    LET replies == SelectSeq(wire, LAMBDA p : p.packet_type # "observation")
    IN [i \in DOMAIN replies |-> replies[i].n]

\* the requests whose replies wait: the one the loop has in hand, then the
\* message queue
RepliesWaiting ==
    [i \in DOMAIN sender.packet |-> sender.packet[i].cause]
        \o [i \in DOMAIN message_queue |-> message_queue[i].cause]

\* the replies in the order of their sending, done and to come
Deliveries == RepliesSent \o RepliesWaiting

\* C8: with the control loop running over channels whose send fails at
\* times but not for ever, the replies appended to message_queue go over
\* the channel in the order they were appended, none lost and none twice
\* (the replies sent, the one in hand and the queue, end to end, change only
\* by a reply joining at the tail), and every reply in the queue is
\* sent in the end.
C8_QueueDelivered ==
    /\ [][\/ Deliveries' = Deliveries
          \/ \E k \in 1..MaxPackets : Deliveries' = Append(Deliveries, k)]_vars
    /\ \A k \in 1..MaxPackets :
          (sending_thread = "running" /\ k \in Range(RepliesWaiting))
              ~> (k \in Range(RepliesSent))

\* C8's case: a reply has gone out, the next is in the loop's hand for its
\* send, and another waits behind it in the queue
C8_Witness ==
    /\ sending_thread = "running"
    /\ Len(RepliesSent) >= 1
    /\ sender.pc = "queue_send"
    /\ message_queue # <<>>

\* a sequence of numbers that rise
Rising(s) == \A i, j \in DOMAIN s : i < j => s[i] < s[j]

\* the observations of agent a that have gone over a channel, in that order
ObservationsSent(a) ==
    LET mine == SelectSeq(wire, LAMBDA p : p.packet_type = "observation"
                                           /\ p.agent = a)
    IN [i \in DOMAIN mine |-> mine[i].n]

\* C9: for each agent the observations go over the channel in the order
\* they were appended to pending_observations.
C9_ObservationsInOrder ==
    \A a \in DOMAIN agent_objs : Rising(ObservationsSent(a))

====
